---- MODULE Spec2Model ----
(***************************************************************************)
(* Job lifecycle engine of the downloader: the registry JOBS, one          *)
(* _download_worker thread per job, cancel_job, the staging reconciler     *)
(* _move_completed_to_final and the push feed api_stream.                   *)
(*                                                                         *)
(* Strings that the program inspects character by character (titles) are   *)
(* sequences of symbols; a path is a sequence of such strings.  The        *)
(* external extraction library (probe, transfer, progress-hook calls) and  *)
(* the file system (makedirs, move, copy) are the environment: every       *)
(* outcome they can produce is a nondeterministic choice.                  *)
(***************************************************************************)
EXTENDS Integers, Sequences, FiniteSets, TLC

\* ------------------------------------------------------------------ bounds
MaxItems == 2      \* longest selectedUrls list a request carries
MaxHooks == 1      \* "downloading" hook calls per transfer attempt
MaxTitleLen == 3   \* longest title handed to safe_folder on its own
MaxDirLen == 2     \* most components of a user-supplied output directory
MaxSubDepth == 1   \* deepest subfolder of a work directory given to the reconciler
MaxTreeFiles == 2  \* most files of such a work directory

NULL == "None"

JobIds == {"j1"}                 \* identifiers uuid4 may hand out
Urls == {"a", "b"}               \* playlist entries a client may select
SourceUrl == "src"               \* the url of the request
Heights == {NULL, "720"}             \* videoHeight of a request, as text
NoPath == <<>>                   \* None, where a path is expected
NoTitle == <<>>                  \* the empty string, where a title is expected
NoText == <<>>                   \* the empty string of message, speed, eta

\* ----------------------------------------------------------------- strings
Word(w) == <<w>>                 \* a literal string, kept as one symbol
BadChars == {"\\", "/", ":", "*", "?", "\"", "<", ">", "|"}
WhiteSpace == {" ", "\t", "\n"}

Untitled == Word("Untitled")
PlaylistWord == Word("Playlist")

\* re.sub(r'[\\/:*?"<>|]+', "_", name): every maximal run becomes one "_"
RECURSIVE re_sub_bad(_, _)
re_sub_bad(s, inRun) ==
    IF s = <<>> THEN <<>>
    ELSE IF Head(s) \in BadChars
         THEN (IF inRun THEN <<>> ELSE <<"_">>) \o re_sub_bad(Tail(s), TRUE)
         ELSE <<Head(s)>> \o re_sub_bad(Tail(s), FALSE)

RECURSIVE lstrip(_)
lstrip(s) == IF s # <<>> /\ Head(s) \in WhiteSpace THEN lstrip(Tail(s)) ELSE s

RECURSIVE rstrip(_)
rstrip(s) ==
    IF s # <<>> /\ s[Len(s)] \in WhiteSpace
    THEN rstrip(SubSeq(s, 1, Len(s) - 1)) ELSE s

strip(s) == rstrip(lstrip(s))

\* safe_folder as it would be without the "or 'Untitled'"
safe_folder_NoPlaceholder(name) == strip(re_sub_bad(name, FALSE))

safe_folder(name) ==
    LET t == strip(re_sub_bad(name, FALSE)) IN IF t = <<>> THEN Untitled ELSE t

\* ------------------------------------------------------------------- paths
\* a path is the sequence of its components; an absolute path starts with
\* the separator
Slash == Word("/")
HOME == <<Slash, Word("home")>>
STORAGE_DIR == <<Slash, Word("app"), Word("storage")>>
DEFAULT_DL == HOME \o <<Word("Downloads")>>
DEFAULT_VID_BUCKET == DEFAULT_DL \o <<Word("Yt_videos")>>
DEFAULT_AUD_BUCKET == DEFAULT_DL \o <<Word("Yt_audios")>>

isabs(p) == p # <<>> /\ Head(p) = Slash

\* os.path.join(dir, p): an absolute p replaces dir
join(dir, p) == IF isabs(p) THEN p ELSE dir \o p

\* os.path.expanduser(p): a leading "~" component becomes the home directory
expanduser(p) == IF p # <<>> /\ Head(p) = Word("~") THEN HOME \o Tail(p) ELSE p

\* _resolve_root_dir; user_dir is NoPath for None or ""; mkOk is the outcome
\* of os.makedirs(root)
resolve_root_dir(user_dir, media_type, mkOk) ==
    LET root == IF user_dir # NoPath
                THEN LET u == expanduser(user_dir)
                     IN IF isabs(u) THEN u ELSE join(STORAGE_DIR, u)
                ELSE IF media_type = "video" THEN DEFAULT_VID_BUCKET
                     ELSE DEFAULT_AUD_BUCKET
    IN IF mkOk THEN root ELSE STORAGE_DIR

format_string(media_type, height) ==
    IF media_type = "audio" THEN <<"bestaudio/best">>
    ELSE IF height = NULL THEN <<"bv*+ba/b">>
    ELSE <<"bv*[height=", height, "]+ba/b[height=", height, "]">>

\* ---------------------------------------------------------------- messages
\* every message is a sequence of strings; NoText is the empty message
MsgStarting == <<"Starting">>
MsgCompleted == <<"Completed">>
MsgCanceled == <<"Canceled">>
MsgSaved == <<"Canceled - completed items saved to destination.">>
MsgCancelReq == <<"Cancel requested">>
MsgItem(i, total) == <<"Downloading item ", ToString(i), "/", ToString(total)>>
MsgProcessing(f) == <<"Processing ", f>>
MsgDownloadError(e) == <<"DownloadError: ", e>>
MsgError(e) == <<"Error: ", e>>

ErrFormat == "Requested format is not available"
ErrUnavailable == "Video or playlist unavailable"
ErrNetwork == "network failure"
ErrOS == "OSError"

Terminal == {"done", "error", "canceled"}

\* ------------------------------------------------------------------- state
VARIABLES
    JOBS,      \* the registry: job id -> record (downloader.JOBS)
    worker,    \* job id -> the locals and position of its _download_worker
    staging,   \* job id -> [exists, files]: the job's work_dir on disk
    final,     \* set of [dir, base, n, kind]: the files under the final directories
    ret,       \* the result of the last cancel_job call
    feed,      \* the generator of one api_stream response
    hist,      \* job id -> what has happened to the job (history only)
    call       \* a helper function called on its own: name, argument, result

vars == <<JOBS, worker, staging, final, ret, feed, hist, call>>

NoCall == [fn |-> NULL, arg |-> <<>>, out |-> <<>>, done |-> FALSE]

Created == DOMAIN JOBS


\* ----------------------------------------------------------- hook helpers
\* humanize_bytes(n) for whole n: the unit loop, then "%.2f unit"
RECURSIVE humanize_units(_, _)
humanize_units(n, units) ==
    IF n < 1024 \/ Len(units) = 1
    THEN <<ToString(n), ".00 ", Head(units)>>
    ELSE humanize_units(n \div 1024, Tail(units))

humanize_bytes(n) == humanize_units(n, <<"B", "KiB", "MiB", "GiB", "TiB">>)

\* humanize_bps(v, fallback) with no _speed_str in the event: v = 0 is None
humanize_bps(v) == IF v > 0 THEN humanize_bytes(v) \o <<"/s">> ELSE NoText

\* humanize_seconds(sec) or the (absent) _eta_str; sec = -1 is None
humanize_seconds(sec) ==
    IF sec = -1 THEN NoText
    ELSE LET s == IF sec > 0 THEN sec ELSE 0
             h == s \div 3600
             m == (s % 3600) \div 60
             ss == s % 60
         IN IF h # 0 THEN <<ToString(h), "h ", ToString(m), "m ", ToString(ss), "s">>
            ELSE IF m # 0 THEN <<ToString(m), "m ", ToString(ss), "s">>
            ELSE <<ToString(ss), "s">>

\* progress in units of 0.1 percent: float(done) / float(total) * 100.0
Progress(done, total) == (done * 1000) \div total
Percent1f(p) == <<ToString(p \div 10), ".", ToString(p % 10), "%">>

\* the "downloading" events the transfer may hand to the hook: one without a
\* total, speed or eta, and one with all of them
DownloadingEvents ==
    { [total_bytes |-> 0, downloaded_bytes |-> 1, speed |-> 0, eta |-> -1],
      [total_bytes |-> 4, downloaded_bytes |-> 1, speed |-> 1, eta |-> 5] }

\* ---------------------------------------------------------------- requests
RECURSIVE SeqsUpTo(_, _)
SeqsUpTo(S, n) ==
    IF n = 0 THEN {<<>>}
    ELSE LET shorter == SeqsUpTo(S, n - 1)
         IN shorter \cup {Append(q, x) : q \in shorter, x \in S}

Selections == SeqsUpTo(Urls, MaxItems)
\* what probe_url_meta may return: kind and title
ProbeResults == { [kind |-> "video", title |-> <<"M", "i", "x">>],
                  [kind |-> "playlist", title |-> <<"?", "*", " ", "L">>] }

\* the requests a client may post: media type, height, selection, no output
\* directory, and whether the makedirs of the root directory succeeds
Requests ==
    { [mediaType |-> "video", videoHeight |-> "720", selectedUrls |-> sel,
       outputDir |-> NoPath, mkOk |-> TRUE] : sel \in Selections }
    \cup { [mediaType |-> "audio", videoHeight |-> NULL, selectedUrls |-> <<>>,
            outputDir |-> NoPath, mkOk |-> FALSE] }

Terminated(j) == j \in Created /\ JOBS[j].status \in Terminal

\* -------------------------------------------------------------------- Init
Init ==
    /\ JOBS = <<>>
    /\ worker = <<>>
    /\ staging = <<>>
    /\ final = {}
    /\ ret = [id |-> NULL, ok |-> FALSE]
    /\ feed = [pc |-> "idle", id |-> NULL, payload |-> <<>>, last_payload |-> <<>>,
               last_event |-> "none"]
    /\ hist = <<>>
    /\ call = NoCall

\* ------------------------------------------------------------- create_job
NewJob(job_id, media_type, video_height, selected_urls, root_dir) ==
    [ jobId |-> job_id, url |-> SourceUrl, mediaType |-> media_type,
      videoHeight |-> video_height, audioBitrate |-> "best",
      selectedUrls |-> selected_urls, rootDir |-> root_dir, finalDir |-> NoPath,
      status |-> "queued", progress |-> 0, percent |-> <<"0%">>,
      eta |-> NoText, speed |-> NoText, message |-> NoText, cancel |-> FALSE,
      kind |-> NULL, title |-> NoTitle, currentItem |-> 0, totalItems |-> 0,
      currentTitle |-> NoTitle, created |-> 0 ]

NewWorker ==
    [ pc |-> "L336", kind |-> NULL, title |-> NoTitle, final_dir |-> NoPath,
      work_dir |-> NoPath, urls |-> <<>>, i |-> 0, attempt |-> 0, hooks |-> 0,
      finished |-> FALSE, exc |-> NULL, emsg |-> NULL, c |-> FALSE, todo |-> {},
      cur |-> {}, dst |-> {} ]

\* started: the urls whose transfer was started, in order; attempts, fails:
\* the download attempts of the current item and those that raised
NewHist ==
    [ started |-> <<>>, attempts |-> <<>>, fails |-> <<>>, completed |-> {},
      termWrites |-> 0,
      cancelRunning |-> FALSE, cancelBeforeRead |-> FALSE,
      errAfterCancel |-> FALSE, workers |-> 0 ]

\* create_job as it would be if it started a second thread on the job
Thread_start_Twice(h) == [h EXCEPT !.workers = @ + 2]

\* lines 416-417: threading.Thread(target=_download_worker, args=(job_id,))
\* and t.start(); workers counts the threads started on the job id
Thread_start(h) == [h EXCEPT !.workers = @ + 1]

create_job(job_id, media_type, video_height, selected_urls, output_dir, mkOk) ==
    /\ job_id \notin Created
    /\ LET root_dir == resolve_root_dir(output_dir, media_type, mkOk)
       IN JOBS' = (job_id :> NewJob(job_id, media_type, video_height,
                                    selected_urls, root_dir)) @@ JOBS
    /\ worker' = (job_id :> NewWorker) @@ worker
    /\ staging' = (job_id :> [exists |-> FALSE, files |-> {}]) @@ staging
    /\ hist' = (job_id :> Thread_start(NewHist)) @@ hist
    /\ UNCHANGED <<final, ret, feed, call>>

\* cancel_job as it would be if it also marked the job canceled itself
cancel_job_MarksCanceled(job_id) ==
    /\ IF job_id \in Created
       THEN /\ JOBS' = [JOBS EXCEPT ![job_id].cancel = TRUE,
                                    ![job_id].status = "canceled",
                                    ![job_id].message = MsgCancelReq]
            /\ ret' = [id |-> job_id, ok |-> TRUE]
       ELSE /\ ret' = [id |-> job_id, ok |-> FALSE]
            /\ UNCHANGED JOBS
    /\ UNCHANGED <<worker, staging, final, feed, hist, call>>

\* ------------------------------------------------------------- cancel_job
cancel_job(job_id) ==
    /\ IF job_id \in Created
       THEN /\ JOBS' = [JOBS EXCEPT ![job_id].cancel = TRUE,
                                    ![job_id].message = MsgCancelReq]
            /\ ret' = [id |-> job_id, ok |-> TRUE]
            /\ hist' = [hist EXCEPT
                 ![job_id].cancelRunning =
                     @ \/ ( /\ JOBS[job_id].status = "running"
                            /\ hist[job_id].completed # {} ),
                 ![job_id].cancelBeforeRead =
                     @ \/ ( /\ JOBS[job_id].status = "running"
                            /\ hist[job_id].completed # {}
                            /\ worker[job_id].pc # "L361w" ) ]
       ELSE /\ ret' = [id |-> job_id, ok |-> FALSE]
            /\ UNCHANGED <<JOBS, hist>>
    /\ UNCHANGED <<worker, staging, final, feed, call>>


\* ------------------------------------------------------- _download_worker
\* An exception raised at the worker's current position: control goes to the
\* except clauses of _download_worker (lines 368-377).
Raise(j, exc, emsg) ==
    /\ worker' = [worker EXCEPT ![j].pc = "except", ![j].exc = exc, ![j].emsg = emsg]
    /\ hist' = [hist EXCEPT ![j].errAfterCancel =
                   @ \/ (exc # "KeyboardInterrupt" /\ hist[j].cancelRunning)]

\* line 336: probe_url_meta(url) returns the kind and title, or raises
Probe(j) ==
    /\ j \in Created /\ worker[j].pc = "L336"
    /\ \/ \E meta \in ProbeResults :
            /\ worker' = [worker EXCEPT ![j].pc = "L337", ![j].kind = meta.kind,
                                        ![j].title = meta.title]
            /\ UNCHANGED hist
       \/ Raise(j, "DownloadError", ErrUnavailable)
       \/ Raise(j, "Exception", "TypeError")
    /\ UNCHANGED <<JOBS, staging, final, ret, feed, call>>

\* lines 337-340
SetRunning(j) ==
    /\ j \in Created /\ worker[j].pc = "L337"
    /\ JOBS' = [JOBS EXCEPT ![j].kind = worker[j].kind, ![j].title = worker[j].title,
                            ![j].status = "running", ![j].message = MsgStarting]
    /\ worker' = [worker EXCEPT ![j].pc = "L343"]
    /\ UNCHANGED <<staging, final, ret, feed, hist, call>>

\* lines 343-348: final_dir is assigned before makedirs can raise
final_dir_of(root_dir, kind, title) ==
    IF kind = "playlist"
    THEN join(root_dir, <<safe_folder(IF title # NoTitle THEN title ELSE PlaylistWord)>>)
    ELSE root_dir

SetFinalDir(j) ==
    /\ j \in Created /\ worker[j].pc = "L343"
    /\ LET fd == final_dir_of(JOBS[j].rootDir, worker[j].kind, worker[j].title)
       IN \/ /\ JOBS' = [JOBS EXCEPT ![j].finalDir = fd]
             /\ worker' = [worker EXCEPT ![j].pc = "L351", ![j].final_dir = fd]
             /\ UNCHANGED hist
          \/ /\ worker' = [worker EXCEPT ![j].pc = "except", ![j].final_dir = fd,
                                         ![j].exc = "Exception", ![j].emsg = ErrOS]
             /\ UNCHANGED <<JOBS, hist>>
    /\ UNCHANGED <<staging, final, ret, feed, call>>

\* lines 351-352: work_dir is assigned before makedirs can raise
work_dir_of(root_dir, job_id) == join(root_dir, <<Word("_tmp"), Word(job_id)>>)

SetWorkDir(j) ==
    /\ j \in Created /\ worker[j].pc = "L351"
    /\ LET wd == work_dir_of(JOBS[j].rootDir, j)
       IN \/ /\ worker' = [worker EXCEPT ![j].pc = "L355", ![j].work_dir = wd]
             /\ staging' = [staging EXCEPT ![j].exists = TRUE]
          \/ /\ worker' = [worker EXCEPT ![j].pc = "except", ![j].work_dir = wd,
                                         ![j].exc = "Exception", ![j].emsg = ErrOS]
             /\ UNCHANGED staging
    /\ UNCHANGED <<JOBS, final, ret, feed, hist, call>>

\* the choice of urls as it would be without the test of the probed kind
effective_urls_IgnoresKind(kind, selected_urls, url) ==
    IF selected_urls # <<>> THEN selected_urls ELSE <<url>>

\* lines 355-356
effective_urls(kind, selected_urls, url) ==
    IF kind = "playlist" /\ selected_urls # <<>> THEN selected_urls ELSE <<url>>

\* lines 355-358 and 300-312: choose the urls, enter _download_urls
ChooseUrls(j) ==
    /\ j \in Created /\ worker[j].pc = "L355"
    /\ LET urls == effective_urls(worker[j].kind, JOBS[j].selectedUrls, JOBS[j].url)
       IN /\ worker' = [worker EXCEPT ![j].pc = "L313", ![j].urls = urls, ![j].i = 0]
          /\ JOBS' = [JOBS EXCEPT ![j].totalItems = Len(urls)]
    /\ UNCHANGED <<staging, final, ret, feed, hist, call>>


\* ----------------------------------------------------------- the transfer
\* lines 316-321: the title the item's probe returns, "" when it raises
\* (the probe of entry "b" is the one that fails)
ItemTitle(u) == IF u = "b" THEN NoTitle ELSE Word(u)
File(u, kind) == [sub |-> <<>>, base |-> u, kind |-> kind]
\* kind "part": the in-progress *.part file; "raw": the downloaded file under
\* its own name, not yet post-processed; "out": the item's finished output

CurUrl(j) == worker[j].urls[worker[j].i]

BeginAttempt(w, n) == [w EXCEPT !.pc = "xfer", !.attempt = n, !.hooks = 0,
                                !.finished = FALSE]

LogAttempt(h, u, n, fmt) ==
    IF n = 1
    THEN [h EXCEPT !.started = Append(@, u), !.attempts = <<fmt>>, !.fails = <<>>]
    ELSE [h EXCEPT !.attempts = Append(@, fmt)]

\* lines 313-322 and 231-243: next iteration of the item loop, up to the
\* first ydl.download call; the loop is left when the urls are exhausted
LoopNext(j) ==
    /\ j \in Created /\ worker[j].pc = "L313"
    /\ IF worker[j].i = Len(worker[j].urls)
       THEN /\ worker' = [worker EXCEPT ![j].pc = "L361r"]
            /\ UNCHANGED <<JOBS, hist>>
       ELSE LET i == worker[j].i + 1
                u == worker[j].urls[i]
            IN   /\ JOBS' = [JOBS EXCEPT ![j].currentItem = i,
                                 ![j].message = MsgItem(i, Len(worker[j].urls)),
                                 ![j].currentTitle = ItemTitle(u)]
                 /\ worker' = [worker EXCEPT ![j] = BeginAttempt([@ EXCEPT !.i = i], 1)]
                 /\ hist' = [hist EXCEPT ![j] = LogAttempt(@, u, 1,
                               format_string(JOBS[j].mediaType, JOBS[j].videoHeight))]
    /\ UNCHANGED <<staging, final, ret, feed, call>>

\* the hook as it would be if it raised without testing the flag
HookCancelCheck_Always(j, w) ==
    [w EXCEPT !.pc = "except", !.exc = "KeyboardInterrupt", !.emsg = "Canceled by user"]

\* lines 226-228: the hook's last statement
HookCancelCheck(j, w) ==
    IF JOBS[j].cancel
    THEN [w EXCEPT !.pc = "except", !.exc = "KeyboardInterrupt", !.emsg = "Canceled by user"]
    ELSE w

\* lines 210-223, 226-228: hook({"status": "downloading", ...})
HookDownloading(j, d) ==
    /\ j \in Created /\ worker[j].pc = "xfer"
    /\ ~worker[j].finished /\ worker[j].hooks < MaxHooks
    /\ LET p == IF d.total_bytes # 0
                THEN Progress(d.downloaded_bytes, d.total_bytes)
                ELSE JOBS[j].progress
       IN JOBS' = [JOBS EXCEPT ![j].status = "running", ![j].progress = p,
                               ![j].percent = Percent1f(p),
                               ![j].speed = humanize_bps(d.speed),
                               ![j].eta = humanize_seconds(d.eta)]
    /\ staging' = [staging EXCEPT ![j].files = @ \cup {File(CurUrl(j), "part")}]
    /\ worker' = [worker EXCEPT ![j] = HookCancelCheck(j, [@ EXCEPT !.hooks = @ + 1])]
    /\ UNCHANGED <<final, ret, feed, hist, call>>

\* lines 224-228: hook({"status": "finished", ...}); the library has renamed
\* the *.part file to its own name before it calls the hook
HookFinished(j) ==
    /\ j \in Created /\ worker[j].pc = "xfer" /\ ~worker[j].finished
    /\ JOBS' = [JOBS EXCEPT ![j].message = MsgProcessing(CurUrl(j))]
    /\ staging' = [staging EXCEPT ![j].files =
                      (@ \ {File(CurUrl(j), "part")}) \cup {File(CurUrl(j), "raw")}]
    /\ worker' = [worker EXCEPT ![j] = HookCancelCheck(j, [@ EXCEPT !.finished = TRUE])]
    /\ UNCHANGED <<final, ret, feed, hist, call>>

\* lines 243-244 / 260: ydl.download returns, the item's output is written
XferReturn(j) ==
    /\ j \in Created /\ worker[j].pc = "xfer" /\ worker[j].finished
    /\ staging' = [staging EXCEPT ![j].files =
                      (@ \ {File(CurUrl(j), "raw")}) \cup {File(CurUrl(j), "out")}]
    /\ worker' = [worker EXCEPT ![j].pc = "L323"]
    /\ hist' = [hist EXCEPT ![j].completed = @ \cup {worker[j].i}]
    /\ UNCHANGED <<JOBS, final, ret, feed, call>>

\* the fallback test as it would be without the test of the error's text
Recoverable_AnyDownloadError(exc, emsg) == exc = "DownloadError"

\* line 246: which failures of the first attempt are recovered by a fallback
Recoverable(exc, emsg) == exc = "DownloadError" /\ emsg = ErrFormat

\* lines 245-260: ydl.download raises; the first attempt's "format not
\* available" starts the fallback at best quality, anything else propagates
XferFail(j, exc, emsg) ==
    /\ j \in Created /\ worker[j].pc = "xfer"
    /\ LET h == [hist[j] EXCEPT !.fails = Append(@, [exc |-> exc, emsg |-> emsg])]
       IN IF worker[j].attempt = 1 /\ Recoverable(exc, emsg)
          THEN /\ worker' = [worker EXCEPT ![j] = BeginAttempt(@, 2)]
               /\ hist' = [hist EXCEPT ![j] = LogAttempt(h, CurUrl(j), 2,
                              format_string(JOBS[j].mediaType, NULL))]
          ELSE /\ worker' = [worker EXCEPT ![j].pc = "except", ![j].exc = exc,
                                           ![j].emsg = emsg]
               /\ hist' = [hist EXCEPT ![j] =
                              [h EXCEPT !.errAfterCancel = @ \/ h.cancelRunning]]
    /\ UNCHANGED <<JOBS, staging, final, ret, feed, call>>

TransferErrors == { <<"DownloadError", ErrFormat>>, <<"DownloadError", ErrNetwork>>,
                    <<"Exception", ErrOS>> }

\* lines 323-324
AfterItem(j) ==
    /\ j \in Created /\ worker[j].pc = "L323"
    /\ worker' = [worker EXCEPT ![j].pc = IF JOBS[j].cancel THEN "L361r" ELSE "L313"]
    /\ UNCHANGED <<JOBS, staging, final, ret, feed, hist, call>>


\* ------------------------------------------------- completion, lines 361-377
\* the status write as it would be if the workers shared one record
SetStatus_AllJobs(j, st) ==
    /\ JOBS' = [k \in DOMAIN JOBS |-> [JOBS[k] EXCEPT !.status = st]]
    /\ hist' = [hist EXCEPT ![j].termWrites = @ + (IF st \in Terminal THEN 1 ELSE 0)]

SetStatus(j, st) ==
    /\ JOBS' = [JOBS EXCEPT ![j].status = st]
    /\ hist' = [hist EXCEPT ![j].termWrites = @ + (IF st \in Terminal THEN 1 ELSE 0)]

\* line 361, right-hand side: the worker's last read of the cancellation flag
ReadCancel(j) ==
    /\ j \in Created /\ worker[j].pc = "L361r"
    /\ worker' = [worker EXCEPT ![j].pc = "L361w", ![j].c = JOBS[j].cancel]
    /\ UNCHANGED <<JOBS, staging, final, ret, feed, hist, call>>

\* line 361 as it would be without the test of the cancellation flag
FinalStatus_AlwaysDone(c) == "done"

FinalStatus(c) == IF ~c THEN "done" ELSE "canceled"

\* line 361, the assignment
WriteStatus(j) ==
    /\ j \in Created /\ worker[j].pc = "L361w"
    /\ SetStatus(j, FinalStatus(worker[j].c))
    /\ worker' = [worker EXCEPT ![j].pc = "L362"]
    /\ UNCHANGED <<staging, final, ret, feed, call>>

\* line 362
WriteMessage(j) ==
    /\ j \in Created /\ worker[j].pc = "L362"
    /\ JOBS' = [JOBS EXCEPT ![j].message =
                   IF JOBS[j].status = "done" THEN MsgCompleted ELSE MsgCanceled]
    /\ worker' = [worker EXCEPT ![j].pc = "L363"]
    /\ UNCHANGED <<staging, final, ret, feed, hist, call>>

\* lines 363-365
WriteProgress(j) ==
    /\ j \in Created /\ worker[j].pc = "L363"
    /\ JOBS' = IF JOBS[j].status = "done"
               THEN [JOBS EXCEPT ![j].progress = 1000, ![j].percent = <<"100%">>]
               ELSE JOBS
    /\ worker' = [worker EXCEPT ![j].pc = "L366"]
    /\ UNCHANGED <<staging, final, ret, feed, hist, call>>

\* lines 366-367
ClearEtaSpeed(j) ==
    /\ j \in Created /\ worker[j].pc = "L366"
    /\ JOBS' = [JOBS EXCEPT ![j].eta = NoText, ![j].speed = NoText]
    /\ worker' = [worker EXCEPT ![j].pc = "L381"]
    /\ UNCHANGED <<staging, final, ret, feed, hist, call>>

\* the except clauses as they would be if the KeyboardInterrupt clause
\* forgot to set the status
HandlerStatus_InterruptKeepsRunning(exc) ==
    IF exc = "KeyboardInterrupt" THEN "running" ELSE "error"

\* lines 368-377: the except clause that matches the raised exception
HandlerStatus(exc) == IF exc = "KeyboardInterrupt" THEN "canceled" ELSE "error"

HandlerMessage(exc, emsg) ==
    IF exc = "KeyboardInterrupt" THEN MsgCanceled
    ELSE IF exc = "DownloadError" THEN MsgDownloadError(emsg)
    ELSE MsgError(emsg)

ExceptHandler(j) ==
    /\ j \in Created /\ worker[j].pc = "except"
    /\ JOBS' = [JOBS EXCEPT ![j].status = HandlerStatus(worker[j].exc),
                            ![j].message = HandlerMessage(worker[j].exc, worker[j].emsg)]
    /\ hist' = [hist EXCEPT ![j].termWrites =
                   @ + (IF HandlerStatus(worker[j].exc) \in Terminal THEN 1 ELSE 0)]
    /\ worker' = [worker EXCEPT ![j].pc = "L381"]
    /\ UNCHANGED <<staging, final, ret, feed, call>>

\* ------------------------------------------------ _move_completed_to_final
\* the reconciler's filter as it would be if it skipped no file
IsTemp_Nothing(f) == FALSE

IsTemp(f) == f.kind = "part"          \* f.endswith(".part") or ".ytdl"

\* _unique_dst: the first of name, "name (1)", "name (2)", ... not yet there
RECURSIVE unique_n(_, _, _, _)
unique_n(files, dir, base, n) ==
    IF \E g \in files : g.dir = dir /\ g.base = base /\ g.n = n
    THEN unique_n(files, dir, base, n + 1) ELSE n

unique_dst(files, dir, f) ==
    [dir |-> dir, base |-> f.base, n |-> unique_n(files, dir, f.base, 0), kind |-> f.kind]

\* lines 276-281: the early returns, then the listing of the work directory
\* (final_dir was created at line 347, so the makedirs of line 280 succeeds)
ReconcileEnter(j) ==
    /\ j \in Created /\ worker[j].pc = "L381"
    /\ IF worker[j].work_dir = NoPath \/ worker[j].final_dir = NoPath
          \/ ~staging[j].exists
       THEN worker' = [worker EXCEPT ![j].pc = "L385"]
       ELSE worker' = [worker EXCEPT ![j].pc = "walk",
                          ![j].todo = {f \in staging[j].files : ~IsTemp(f)}]
    /\ UNCHANGED <<JOBS, staging, final, ret, feed, hist, call>>

MoveOutcomes == {"moved", "copied", "copied, source left", "failed"}

\* lines 285-287, one file of the walk: dst = _unique_dst(final_dir, f); f is
\* the file's bare name, the folder it was found in (root) is not used
PickDst(j) ==
    /\ j \in Created /\ worker[j].pc = "walk"
    /\ \E f \in worker[j].todo :
          worker' = [worker EXCEPT ![j].pc = "move", ![j].cur = {f},
                        ![j].dst = {unique_dst(final, worker[j].final_dir, f)}]
    /\ UNCHANGED <<JOBS, staging, final, ret, feed, hist, call>>

SameName(g, d) == g.dir = d.dir /\ g.base = d.base /\ g.n = d.n

\* the file that job j has put at the path d
Placed(d, j) == [dir |-> d.dir, base |-> d.base, n |-> d.n, kind |-> d.kind,
                 job |-> j]

\* the directory after a file was written to the path of p: a file that was
\* at that path is replaced (os.rename and copy2 overwrite)
Written(files, p) == {g \in files : ~SameName(g, p)} \cup {p}

\* lines 288-295, the same file: shutil.move; if it raises, shutil.copy2 and
\* os.remove; an exception of copy2 leaves the function (and is swallowed at
\* lines 382-383), so that line 297 is not reached
MoveOne(j, outcome) ==
    /\ j \in Created /\ worker[j].pc = "move"
    /\ LET f == CHOOSE x \in worker[j].cur : TRUE
           dst == CHOOSE d \in worker[j].dst : TRUE
           next == [worker EXCEPT ![j].pc = "walk", ![j].todo = @ \ {f},
                                  ![j].cur = {}, ![j].dst = {}]
       IN CASE outcome \in {"moved", "copied"} ->
                 /\ final' = Written(final, Placed(dst, j))
                 /\ staging' = [staging EXCEPT ![j].files = @ \ {f}]
                 /\ worker' = next
            [] outcome = "copied, source left" ->
                 /\ final' = Written(final, Placed(dst, j))
                 /\ worker' = next
                 /\ UNCHANGED staging
            [] outcome = "failed" ->
                 /\ worker' = [worker EXCEPT ![j].pc = "L385", ![j].todo = {},
                                             ![j].cur = {}, ![j].dst = {}]
                 /\ UNCHANGED <<final, staging>>
    /\ UNCHANGED <<JOBS, ret, feed, hist, call>>

\* line 297: shutil.rmtree(work_dir, ignore_errors=True), taken to succeed;
\* it removes the temporary files and any source a failed os.remove left
RemoveStaging(j) ==
    /\ j \in Created /\ worker[j].pc = "walk" /\ worker[j].todo = {}
    /\ staging' = [staging EXCEPT ![j] = [exists |-> FALSE, files |-> {}]]
    /\ worker' = [worker EXCEPT ![j].pc = "L385"]
    /\ UNCHANGED <<JOBS, final, ret, feed, hist, call>>

\* lines 385-386, then the thread ends
FinalMessage(j) ==
    /\ j \in Created /\ worker[j].pc = "L385"
    /\ JOBS' = IF JOBS[j].status = "canceled"
               THEN [JOBS EXCEPT ![j].message = MsgSaved] ELSE JOBS
    /\ worker' = [worker EXCEPT ![j].pc = "exited"]
    /\ UNCHANGED <<staging, final, ret, feed, hist, call>>

Exited(j) == j \in Created /\ worker[j].pc = "exited"

\* one step of the worker of job j, with the library's "downloading" events,
\* the transfer's errors and the outcomes of a file move drawn from the sets
WorkerSteps(j, events, errors, outcomes) ==
    \/ Probe(j) \/ SetRunning(j) \/ SetFinalDir(j) \/ SetWorkDir(j) \/ ChooseUrls(j)
    \/ LoopNext(j)
    \/ \E d \in events : HookDownloading(j, d)
    \/ HookFinished(j) \/ XferReturn(j)
    \/ \E e \in errors : XferFail(j, e[1], e[2])
    \/ AfterItem(j)
    \/ ReadCancel(j) \/ WriteStatus(j) \/ WriteMessage(j) \/ WriteProgress(j)
    \/ ClearEtaSpeed(j) \/ ExceptHandler(j)
    \/ ReconcileEnter(j)
    \/ PickDst(j)
    \/ \E o \in outcomes : MoveOne(j, o)
    \/ RemoveStaging(j) \/ FinalMessage(j)

WorkerStep(j) == WorkerSteps(j, DownloadingEvents, TransferErrors, MoveOutcomes)

\* ------------------------------------------------------------- api_stream
\* json.dumps(job): the values of the record in the order of its keys
dumps(job) ==
    << job.jobId, job.url, job.mediaType, job.videoHeight, job.audioBitrate,
       job.selectedUrls, job.rootDir, job.finalDir, job.status, job.progress,
       job.percent, job.eta, job.speed, job.message, job.cancel, job.kind,
       job.title, job.currentItem, job.totalItems, job.currentTitle, job.created >>

PayloadStatus(payload) == payload[9]

\* GET /api/stream/<job_id>: the response's generator is started
FeedOpen(job_id) ==
    /\ feed.pc = "idle"
    /\ feed' = [feed EXCEPT !.pc = "L345", !.id = job_id]
    /\ UNCHANGED <<JOBS, worker, staging, final, ret, hist, call>>

\* lines 345-349: get_job, the error event of an unknown id, json.dumps
FeedPoll ==
    /\ feed.pc = "L345"
    /\ IF feed.id \notin Created
       THEN feed' = [feed EXCEPT !.pc = "closed", !.last_event = "error"]
       ELSE feed' = [feed EXCEPT !.pc = "L350", !.payload = dumps(JOBS[feed.id])]
    /\ UNCHANGED <<JOBS, worker, staging, final, ret, hist, call>>

\* lines 350-352: emit the payload when it differs from the last one emitted
FeedEmit ==
    /\ feed.pc = "L350"
    /\ IF feed.payload # feed.last_payload
       THEN feed' = [feed EXCEPT !.pc = "L353", !.last_payload = feed.payload,
                                 !.payload = <<>>, !.last_event = "data"]
       ELSE feed' = [feed EXCEPT !.pc = "L353", !.payload = <<>>]
    /\ UNCHANGED <<JOBS, worker, staging, final, ret, hist, call>>

\* lines 353-355: job["status"] is read from the live record, not the payload
FeedCheck ==
    /\ feed.pc = "L353"
    /\ feed' = [feed EXCEPT !.pc = IF JOBS[feed.id].status \in Terminal
                                   THEN "closed" ELSE "L345"]
    /\ UNCHANGED <<JOBS, worker, staging, final, ret, hist, call>>

FeedStep == (\E j \in JobIds : FeedOpen(j)) \/ FeedPoll \/ FeedEmit \/ FeedCheck

CreateStep ==
    \E j \in JobIds, r \in Requests :
        create_job(j, r.mediaType, r.videoHeight, r.selectedUrls, r.outputDir, r.mkOk)

CancelStep == \E j \in JobIds : cancel_job(j)

Next ==
    \/ CreateStep
    \/ CancelStep
    \/ \E j \in JobIds : WorkerStep(j)

Spec == Init /\ [][Next]_vars

\* the same system with one client connected to the push feed; the client
\* posts one of two requests
FeedRequests ==
    { r \in Requests : r.selectedUrls = <<>> }

CreateFeedStep ==
    \E j \in JobIds, r \in FeedRequests :
        create_job(j, r.mediaType, r.videoHeight, r.selectedUrls, r.outputDir, r.mkOk)

NextFeed ==
    \/ CreateFeedStep
    \/ CancelStep
    \/ \E j \in JobIds : WorkerStep(j)
    \/ FeedStep

SpecFeed == Init /\ [][NextFeed]_vars


\* the worker threads are scheduled fairly, and every call into the
\* extraction library returns or raises
FairSpec == Spec /\ \A j \in JobIds : WF_vars(WorkerStep(j))

\* two jobs side by side: every client posts the same audio request; no
\* fallback format is needed, and a file move succeeds or fails outright
JobIds2 == {"j1", "j2"}

TwoRequests == { r \in Requests : r.mediaType = "audio" }
TwoErrors == { e \in TransferErrors : e[2] = ErrNetwork }
TwoOutcomes == {"moved", "failed"}

CreateTwoStep ==
    \E j \in JobIds2, r \in TwoRequests :
        create_job(j, r.mediaType, r.videoHeight, r.selectedUrls, r.outputDir, r.mkOk)

WorkerStepTwo(j) == WorkerSteps(j, DownloadingEvents, TwoErrors, TwoOutcomes)

NextTwo ==
    \/ CreateTwoStep
    \/ \E j \in JobIds2 : WorkerStepTwo(j)

SpecTwo == Init /\ [][NextTwo]_vars

\* the worker of j2 is scheduled fairly and its library calls return or
\* raise; the worker of j1 may stall for ever at any point
FairSpecTwo == SpecTwo /\ WF_vars(WorkerStepTwo("j2"))

\* ------------------------------------------- helper functions on their own
\* the titles safe_folder is called with: every string of at most
\* MaxTitleLen characters that are forbidden, white space or ordinary
TitleChars == BadChars \cup WhiteSpace \cup {"a", "_"}
Titles == SeqsUpTo(TitleChars, MaxTitleLen)

InitFolder ==
    /\ JOBS = <<>> /\ worker = <<>> /\ staging = <<>> /\ hist = <<>>
    /\ final = {}
    /\ ret = [id |-> NULL, ok |-> FALSE]
    /\ feed = [pc |-> "idle", id |-> NULL, payload |-> <<>>, last_payload |-> <<>>,
               last_event |-> "none"]
    /\ call \in { [fn |-> "safe_folder", arg |-> t, out |-> <<>>, done |-> FALSE] :
                    t \in Titles }

CallSafeFolder ==
    /\ call.fn = "safe_folder" /\ ~call.done
    /\ call' = [call EXCEPT !.out = safe_folder(call.arg), !.done = TRUE]
    /\ UNCHANGED <<JOBS, worker, staging, final, ret, feed, hist>>

SpecFolder == InitFolder /\ [][CallSafeFolder]_vars

\* the directories a client may supply as outputDir: up to MaxDirLen
\* components "..", "~" or a name, relative or absolute
DirComps == {Word(".."), Word("~"), Word("d")}
UserDirs ==
    LET rel == SeqsUpTo(DirComps, MaxDirLen)
    IN rel \cup { <<Slash>> \o p : p \in rel }

InitResolve ==
    /\ JOBS = <<>> /\ worker = <<>> /\ staging = <<>> /\ hist = <<>>
    /\ final = {}
    /\ ret = [id |-> NULL, ok |-> FALSE]
    /\ feed = [pc |-> "idle", id |-> NULL, payload |-> <<>>, last_payload |-> <<>>,
               last_event |-> "none"]
    /\ call \in { [fn |-> "_resolve_root_dir",
                    arg |-> [user_dir |-> u, media_type |-> m, mkOk |-> k],
                    out |-> <<>>, done |-> FALSE] :
                    u \in UserDirs, m \in {"video", "audio"}, k \in BOOLEAN }

CallResolveRootDir ==
    /\ call.fn = "_resolve_root_dir" /\ ~call.done
    /\ call' = [call EXCEPT !.done = TRUE,
                   !.out = resolve_root_dir(call.arg.user_dir, call.arg.media_type,
                                            call.arg.mkOk)]
    /\ UNCHANGED <<JOBS, worker, staging, final, ret, feed, hist>>

SpecResolve == InitResolve /\ [][CallResolveRootDir]_vars

\* ------------------------------------------------ the reconciler on its own
\* _move_completed_to_final(work_dir, final_dir) called on a work directory
\* with any files os.walk can list there, in the directory itself or in a
\* subfolder, finished or temporary
SubDirs == SeqsUpTo({Word("s")}, MaxSubDepth)
TreeFiles ==
    { [sub |-> d, base |-> u, kind |-> k] :
        d \in SubDirs, u \in Urls, k \in {"out", "part"} }
Trees == { t \in SUBSET TreeFiles : Cardinality(t) <= MaxTreeFiles }

\* job j1, a single video that failed, as its worker enters the finally block
InitReconcile ==
    /\ JOBS = ("j1" :> [NewJob("j1", "audio", NULL, <<>>, STORAGE_DIR) EXCEPT
                          !.kind = "video", !.status = "error",
                          !.message = MsgError(ErrOS), !.finalDir = STORAGE_DIR])
    /\ worker = ("j1" :> [NewWorker EXCEPT
                            !.pc = "L381", !.kind = "video",
                            !.exc = "Exception", !.emsg = ErrOS,
                            !.final_dir = STORAGE_DIR,
                            !.work_dir = work_dir_of(STORAGE_DIR, "j1")])
    /\ staging \in { ("j1" :> [exists |-> TRUE, files |-> t]) : t \in Trees }
    /\ hist = ("j1" :> Thread_start(NewHist))
    /\ final = {}
    /\ ret = [id |-> NULL, ok |-> FALSE]
    /\ feed = [pc |-> "idle", id |-> NULL, payload |-> <<>>, last_payload |-> <<>>,
               last_event |-> "none"]
    /\ call = NoCall

NextReconcile ==
    \E j \in JobIds :
        \/ ReconcileEnter(j)
        \/ PickDst(j)
        \/ \E o \in MoveOutcomes : MoveOne(j, o)
        \/ RemoveStaging(j)

SpecReconcile == InitReconcile /\ [][NextReconcile]_vars

\* ==================================================================== claims
AllowedChange(a, b) ==
    <<a, b>> \in { <<"queued", "running">>, <<"running", "done">>,
                   <<"running", "error">>, <<"running", "canceled">> }

\* C1: every change of a job's status is queued->running, running->done,
\* running->error or running->canceled; in particular never queued->terminal
\* and never out of a terminal status.
C1_StatusTransitions ==
    [][ \A j \in Created :
          JOBS'[j].status # JOBS[j].status
            => AllowedChange(JOBS[j].status, JOBS'[j].status) ]_vars

InFinal(j, i) ==
    \E f \in final : /\ f.dir = worker[j].final_dir
                     /\ f.base = worker[j].urls[i]
                     /\ f.kind = "out"

\* C2: once the worker of a canceled or failed job has exited, the output
\* file of every item whose transfer had completed is under finalDir.
C2_CompletedFilesInFinal ==
    \A j \in Created :
        (Exited(j) /\ JOBS[j].status \in {"canceled", "error"})
            => \A i \in hist[j].completed : InFinal(j, i)

\* C3: after the worker has exited, whatever the terminal status, the job's
\* staging directory does not exist.
C3_StagingRemoved ==
    \A j \in Created : Exited(j) => ~staging[j].exists

\* C4 (as claimed): if cancel_job is called while the status is running and
\* the first item has completed, and no unrecovered error is raised
\* afterwards, the terminal status is canceled.
C4_CancelWhileRunningEndsCanceled ==
    \A j \in Created :
        (Terminated(j) /\ hist[j].cancelRunning /\ ~hist[j].errAfterCancel)
            => JOBS[j].status = "canceled"

\* C4 (amended): if that call precedes the worker's final read of the
\* cancellation flag (line 361), the terminal status is never done: it is
\* canceled, or error when the worker raised an unrecovered error.
C4_CancelBeforeFinalReadNeverDone ==
    \A j \in Created :
        (Terminated(j) /\ hist[j].cancelBeforeRead)
            => \/ JOBS[j].status = "canceled"
               \/ /\ JOBS[j].status = "error"
                  /\ worker[j].exc \in {"DownloadError", "Exception"}

C4_Witness ==
    \E j \in Created :
        /\ Exited(j) /\ hist[j].cancelBeforeRead
        /\ JOBS[j].status = "canceled" /\ worker[j].exc = NULL
        /\ Cardinality(hist[j].completed) < Len(worker[j].urls)

\* C5: cancel_job on a job whose status is done, error or canceled returns
\* true and leaves the status as it was.
C5_CancelTerminalKeepsStatus ==
    [][ \A j \in JobIds :
          (Terminated(j) /\ cancel_job(j))
            => /\ ret'.ok /\ ret'.id = j
               /\ JOBS'[j].status = JOBS[j].status ]_vars

C5_Witness ==
    \E j \in Created :
        /\ Exited(j) /\ JOBS[j].status = "done"
        /\ JOBS[j].message = MsgCancelReq /\ JOBS[j].cancel
        /\ ret = [id |-> j, ok |-> TRUE]

IsPrefix(p, q) == Len(p) <= Len(q) /\ SubSeq(q, 1, Len(p)) = p

ExpectedUrls(j) ==
    IF JOBS[j].kind = "playlist" /\ Len(JOBS[j].selectedUrls) > 0
    THEN JOBS[j].selectedUrls ELSE <<JOBS[j].url>>

\* C6: the items transferred are the selection (playlist with a non-empty
\* selection) or the source url, one at a time in that order; totalItems is
\* their number and currentItem counts 1, 2, ... without skipping.
C6_ItemsInSelectionOrder ==
    /\ [](\A j \in Created :
            /\ IsPrefix(hist[j].started, ExpectedUrls(j))
            /\ JOBS[j].currentItem = Len(hist[j].started)
            /\ JOBS[j].totalItems \in {0, Len(ExpectedUrls(j))}
            /\ (JOBS[j].currentItem > 0 => JOBS[j].totalItems = Len(ExpectedUrls(j)))
            /\ hist[j].completed \in { 1..(JOBS[j].currentItem - 1),
                                       1..JOBS[j].currentItem }
            /\ (JOBS[j].status = "done" => hist[j].started = ExpectedUrls(j)))
    /\ [][ \A j \in Created :
             JOBS'[j].currentItem \in {JOBS[j].currentItem, JOBS[j].currentItem + 1} ]_vars

C6_Witness ==
    \E j \in Created :
        /\ JOBS[j].status = "done" /\ JOBS[j].kind = "playlist"
        /\ JOBS[j].selectedUrls = <<"b", "a">>
        /\ hist[j].started = <<"b", "a">>
        /\ JOBS[j].totalItems = 2 /\ JOBS[j].currentItem = 2

FormatUnavailable(f) == f.exc = "DownloadError" /\ f.emsg = ErrFormat

BestFormat(j) ==
    IF JOBS[j].mediaType = "audio" THEN <<"bestaudio/best">> ELSE <<"bv*+ba/b">>

\* C7: an item is attempted at most twice; the second attempt, at best
\* quality, is made exactly when the first failed with "requested format not
\* available"; a recovered item counts as completed, and the job is error on
\* account of such an item only if the fallback failed too.
C7_OneFallbackOnFormatUnavailable ==
    \A j \in Created :
        LET a == hist[j].attempts
            f == hist[j].fails
        IN /\ Len(a) <= 2 /\ Len(f) <= Len(a)
           /\ (Len(a) = 2 => (FormatUnavailable(f[1]) /\ a[2] = BestFormat(j)))
           /\ ((Len(f) >= 1 /\ FormatUnavailable(f[1])) => Len(a) = 2)
           /\ ((Len(f) >= 1 /\ ~FormatUnavailable(f[1]))
                 => (Len(a) = 1 /\ worker[j].pc \notin {"xfer", "L323", "L313"}))
           /\ (worker[j].exc = "KeyboardInterrupt" => Len(f) = Len(a) - 1)
           /\ ((worker[j].pc = "L323" /\ Len(a) = 2)
                 => (Len(f) = 1 /\ worker[j].i \in hist[j].completed))
           /\ ((JOBS[j].status = "error" /\ Len(f) >= 1 /\ FormatUnavailable(f[1]))
                 => Len(f) = 2)

C7_Witness ==
    \E j \in Created :
        /\ JOBS[j].status = "done" /\ Exited(j)
        /\ Len(hist[j].attempts) = 2 /\ Len(hist[j].fails) = 1
        /\ hist[j].attempts[1] # hist[j].attempts[2]

TransferFailed(j) ==
    /\ worker[j].exc \in {"DownloadError", "Exception"}
    /\ hist[j].fails # <<>>

\* C8: when the transfer of item i fails unrecovered and no cancellation was
\* requested, the job ends error with a non-empty message, no later item is
\* started, and the files of items 1..i-1 are in finalDir.
C8_TransferFailureKeepsEarlierItems ==
    \A j \in Created :
        (Exited(j) /\ TransferFailed(j) /\ ~JOBS[j].cancel)
            => /\ JOBS[j].status = "error"
               /\ JOBS[j].message # NoText
               /\ Len(hist[j].started) = worker[j].i
               /\ \A i \in 1..(worker[j].i - 1) : InFinal(j, i)

\* C9: for a known job id the feed closes only after an event whose status is
\* terminal: the last event emitted before it ends is done, error or canceled.
C9_FeedEndsOnTerminalEvent ==
    (feed.pc = "closed" /\ feed.last_event = "data")
        => PayloadStatus(feed.last_payload) \in Terminal

\* C10: every created job eventually reaches a terminal status, on every exit
\* path of the worker, and the terminal status is written exactly once.
C10_TerminatesExactlyOnce ==
    /\ \A j \in JobIds : [](j \in Created => <>Terminated(j))
    /\ [](\A j \in Created :
            /\ hist[j].termWrites <= 1
            /\ (Terminated(j) <=> hist[j].termWrites = 1)
            /\ (worker[j].pc \in {"L381", "walk", "move", "L385", "exited"}
                  => Terminated(j)))

C10_Witness ==
    \E j \in Created :
        /\ Exited(j) /\ JOBS[j].status = "canceled"
        /\ worker[j].exc = "KeyboardInterrupt" /\ hist[j].termWrites = 1

\* C11: once a job's status is terminal, every step leaves every field of its
\* record as it is, except that the worker's reconcile step (lines 385-386)
\* may write message; no cancel_job call changes a field of a terminal record.
C11_TerminalRecordImmutable ==
    [][ \A j \in Created :
          Terminated(j)
            => \/ JOBS'[j] = JOBS[j]
               \/ /\ FinalMessage(j)
                  /\ JOBS'[j] = [JOBS[j] EXCEPT !.message = JOBS'[j].message] ]_vars

\* C12: on every job identifier exactly one worker thread has been started,
\* by create_job, and no step of a create, cancel or stream request or of a
\* worker starts another one: every created job has its one worker.
C12_OneWorkerPerJob ==
    /\ DOMAIN worker = Created
    /\ \A j \in Created : hist[j].workers = 1

C12_Witness ==
    \E j \in Created :
        /\ Exited(j) /\ JOBS[j].cancel /\ ret = [id |-> j, ok |-> TRUE]
        /\ feed.pc = "closed" /\ feed.id = j
        /\ hist[j].workers = 1

\* C13: a step of the worker of one job leaves the record, the worker and the
\* staging directory of every other job as they are, and a record changes
\* only in a step of its own worker; a job whose worker is scheduled reaches
\* a terminal status even when the other job's worker stalls for ever or fails.
C13_JobsDoNotInterfere ==
    /\ [][ \A j \in JobIds2 :
             /\ WorkerStepTwo(j)
                  => \A k \in Created \ {j} : /\ JOBS'[k] = JOBS[k]
                                              /\ worker'[k] = worker[k]
                                              /\ staging'[k] = staging[k]
             /\ (j \in Created /\ JOBS'[j] # JOBS[j]) => WorkerStepTwo(j) ]_vars
    /\ []("j2" \in Created => <>Terminated("j2"))

C13_Witness ==
    /\ JobIds2 \subseteq Created
    /\ worker["j1"].pc = "xfer" /\ JOBS["j1"].status = "running"
    /\ Exited("j2") /\ JOBS["j2"].status = "done"

\* C14: for every title, safe_folder returns a non-empty name without any of
\* the characters \ / : * ? " < > |, and the placeholder "Untitled" when the
\* title is empty or consists of white space only.
C14_SafeFolderName ==
    (call.fn = "safe_folder" /\ call.done)
        => /\ call.out # <<>>
           /\ \A i \in 1..Len(call.out) : call.out[i] \notin BadChars
           /\ ((\A i \in 1..Len(call.arg) : call.arg[i] \in WhiteSpace)
                 => call.out = Untitled)

C14_Witness ==
    /\ call.fn = "safe_folder" /\ call.done
    /\ call.arg = <<" ", "?", "*">> /\ call.out = <<"_">>

\* the path the operating system resolves p to: ".." steps to the parent
\* directory, and the parent of the file system's root is the root
RECURSIVE normpath(_, _)
normpath(seen, rest) ==
    IF rest = <<>> THEN seen
    ELSE IF Head(rest) # Word("..") THEN normpath(Append(seen, Head(rest)), Tail(rest))
    ELSE normpath(IF Len(seen) > 1 THEN SubSeq(seen, 1, Len(seen) - 1) ELSE seen,
                  Tail(rest))

Inside(root, p) == IsPrefix(root, normpath(<<>>, p))

\* C15: for every relative user-supplied directory, with ".." components or
\* a leading "~" or without, the root directory that _resolve_root_dir
\* returns lies inside the storage root.
C15_RelativeDirInsideStorage ==
    ( /\ call.fn = "_resolve_root_dir" /\ call.done
      /\ call.arg.user_dir # NoPath /\ ~isabs(call.arg.user_dir) )
        => Inside(STORAGE_DIR, call.out)

\* C16: in every state in which a job's status is done, error or canceled,
\* the reconciler has already run: the job's staging directory is gone and
\* the file of every completed item is under finalDir.
C16_ReconciledBeforeTerminal ==
    \A j \in Created :
        Terminated(j)
            => /\ ~staging[j].exists
               /\ \A i \in hist[j].completed : InFinal(j, i)

\* C17: when the cancellation flag is already true as the iteration of an
\* item is about to begin (line 313, the first item included), the transfer
\* of that item is not started.
C17_CancelCheckedBeforeEachItem ==
    [][ \A j \in Created :
          (worker[j].pc = "L313" /\ JOBS[j].cancel)
            => hist'[j].started = hist[j].started ]_vars

\* C18: in every state in which a job's status is terminal, its speed and
\* eta are empty, whatever the path to the terminal status.
C18_TerminalClearsSpeedEta ==
    \A j \in Created :
        Terminated(j) => (JOBS[j].speed = NoText /\ JOBS[j].eta = NoText)

\* C19: a step that is not a step of the job's own worker (cancel_job, the
\* push feed) changes no field of the record other than the cancellation
\* flag, and no terminal record carries the message written by cancel_job.
C19_OnlyWorkerWritesRecord ==
    /\ [][ \A j \in Created :
             (JOBS'[j] # JOBS[j] /\ ~WorkerStep(j))
                => JOBS'[j] = [JOBS[j] EXCEPT !.cancel = TRUE] ]_vars
    /\ [](\A j \in Created : Terminated(j) => JOBS[j].message # MsgCancelReq)

\* a file that the transfer has not finished writing: *.part, *.ytdl
HasTempSuffix(f) == f.kind = "part"

\* C20: no file with a temporary suffix (.part, .ytdl) is ever under a final
\* directory: only the reconciler (lines 285-295) adds files there, and the
\* files it adds are not temporary ones.
C20_NoTempFileInFinal ==
    /\ [](\A f \in final : ~HasTempSuffix(f))
    /\ [][ final' # final
             => /\ \E j \in Created : worker[j].pc = "move" /\ worker'[j].pc = "walk"
                /\ \A f \in final' \ final : ~HasTempSuffix(f) ]_vars

C20_Witness ==
    \E j \in Created :
        /\ Exited(j) /\ JOBS[j].status = "error" /\ ~staging[j].exists
        /\ hist[j].completed = {1} /\ worker[j].i = 2 /\ worker[j].hooks = 1
        /\ \E f \in final : f.base = worker[j].urls[1] /\ f.kind = "out"
        /\ \A f \in final : f.base # worker[j].urls[2]

\* C23: in every state in which a job's status is done, the worker's final
\* check did not see the cancellation flag set, progress is 100, totalItems
\* is at least 1, currentItem equals totalItems and finalDir is set.
C23_DoneRecordComplete ==
    \A j \in Created :
        JOBS[j].status = "done"
            => /\ ~worker[j].c
               /\ JOBS[j].progress = 1000
               /\ JOBS[j].totalItems >= 1
               /\ JOBS[j].currentItem = JOBS[j].totalItems
               /\ JOBS[j].finalDir # NoPath

\* C24: a job whose status is canceled has its cancellation flag set, and
\* the flag, once true, stays true.
C24_CanceledOnlyOnRequest ==
    /\ [](\A j \in Created : JOBS[j].status = "canceled" => JOBS[j].cancel)
    /\ [][ \A j \in Created : JOBS[j].cancel => JOBS'[j].cancel ]_vars

C24_Witness ==
    \E j \in Created :
        /\ Exited(j) /\ JOBS[j].status = "canceled" /\ JOBS[j].cancel
        /\ JOBS[j].message = MsgSaved
        /\ worker[j].exc = "KeyboardInterrupt" /\ hist[j].completed = {1}

\* C21: no step removes or replaces a file that is under a final directory:
\* a file moved to a name that is taken gets a fresh, numbered name, also
\* when two jobs with the same final directory reconcile at the same time.
C21_NoOverwriteInFinal ==
    [][ final \subseteq final' ]_vars

\* C22: a finished file found at <sub>/<name> below the staging directory is
\* put at <sub>/<name> below finalDir (up to the number that makes the name
\* fresh), for every subfolder path <sub>.
C22_SubfoldersPreserved ==
    [][ \A j \in Created :
          (worker[j].pc = "move" /\ final' # final)
            => LET f == CHOOSE x \in worker[j].cur : TRUE
               IN \E g \in final' \ final :
                     /\ g.dir = worker[j].final_dir \o f.sub
                     /\ g.base = f.base /\ g.kind = f.kind ]_vars

====
